---- MODULE Spec2Model ----
(***************************************************************************)
(* A model of the simulation core of the 2D engine: the hierarchical       *)
(* spatial index (engine/spatial.py), the entity registry and the          *)
(* per-frame update loop (engine/engine.py and its benchmark subclass      *)
(* engine/benchmarks/tree_collisions.py), the narrow-phase dispatcher     *)
(* (engine/collision.py), the raycaster (engine/raycast.py) and the        *)
(* physics integrator (engine/physics.py).                                 *)
(*                                                                         *)
(* Rectangles are pygame Rects: integer x, y, w, h.  An entity is one of   *)
(* a fixed pool of GameObject instances; its collision shape is reduced to *)
(* the bounding rectangle get_bounding_rect() returns, or None.            *)
(***************************************************************************)
EXTENDS Integers, Sequences, FiniteSets, TLC

\* ------------------------------------------------------------------ bounds
\* Number of GameObject instances in the pool, and how many of them the
\* specification of the tree's full interface (SpecTree) uses.
NEnt == 3
NTreeEnt == 2

Ent == 1..NEnt
TreeEnt == 1..NTreeEnt

VARIABLES
    bounds,        \* SpatialQuadTree.bounds of the root: the world rectangle
    max_objects,   \* SpatialQuadTree.max_objects
    max_levels,    \* SpatialQuadTree.max_levels
    rect,          \* per entity: get_collision_shape().get_bounding_rect(), or None
    tree,          \* the quad tree: node path -> SpatialQuadTree.objects of that node
    hist,          \* history, per entity: "out" | "clean" | "dirty" (see StepHist)
    last,          \* history: the last operation applied and what it returned
    moves,         \* history: how many times a shape has been moved
    cls,           \* class of engine 1: "Engine" or its subclass "QuadTreeEngine"
    next_obj_id,   \* per engine instance: Engine.next_obj_id
    game_objs,     \* Engine.game_objs, an insertion-ordered dict: <<[id, obj], ...>>
    game_objs_by_type, \* Engine.game_objs_by_type: the entries <<type, id, obj>>
    obj_id,        \* per entity: GameObject._id
    shape_class,   \* per entity: the class of its collision shape
    collidable,    \* per entity: what is_collidable() returns
    pc,            \* where Engine.update stands: "idle", a phase, "done", "raised"
    snapshot,      \* update(): what is left of list(self.game_objs.values())
    objs_moved,    \* update(): objs_moved
    cursor,        \* update(): index of the moved object the collision loop is at
    collisions,    \* update(): collisions
    log,           \* history: the calls the current tick has made, in order
    issued,        \* history, per engine: the ids its add_game_object returned
    own,           \* history, per engine: the <<id, obj>> it registered and did not remove
    removed,       \* history: entities unregistered and not registered again
    ticks,         \* history: how many ticks have started
    body,          \* a PhysicsBody: the fields of the dataclass
    shape_position \* CollisionShape.position of the shape owned with the body

treeVars == <<bounds, max_objects, max_levels, rect, tree, hist, last, moves>>
registryVars == <<next_obj_id, game_objs, game_objs_by_type, obj_id, issued, own, removed>>
tickVars == <<pc, snapshot, objs_moved, cursor, collisions, log, ticks>>
objectVars == <<cls, shape_class, collidable, body, shape_position>>
engineVars == <<objectVars, registryVars, tickVars>>
vars == <<treeVars, engineVars>>

\* --------------------------------------------------------------- pygame.Rect
Rect(x, y, w, h) == [x |-> x, y |-> y, w |-> w, h |-> h]

left(r) == r.x
right(r) == r.x + r.w
top(r) == r.y
bottom(r) == r.y + r.h

\* get_collision_shape() returning None: a value apart from every rectangle
\* (TLC compares records only with records).
None == [x |-> 0, y |-> 0, w |-> -1, h |-> -1]

\* pygame.Rect.colliderect: a rectangle of zero width or height collides with
\* nothing; rectangles that only touch along an edge do not collide.
colliderect(a, b) ==
    IF a.w = 0 \/ a.h = 0 \/ b.w = 0 \/ b.h = 0 THEN FALSE
    ELSE /\ left(a) < right(b)
         /\ top(a) < bottom(b)
         /\ right(a) > left(b)
         /\ bottom(a) > top(b)

\* ------------------------------------------------------------ SpatialQuadTree
\* A node is named by its path from the root: the sequence of quadrant indexes
\* (0 NE, 1 NW, 2 SW, 3 SE) leading to it.  tree maps every existing node to its
\* objects set; a node has children (nodes[0] is not None) iff its first child
\* exists.
Root == << >>

has_children(t, p) == Append(p, 0) \in DOMAIN t

\* split: the four child rectangles, from integer halving of the node's size.
vertical_mid(b) == b.x + (b.w \div 2)
horizontal_mid(b) == b.y + (b.h \div 2)

child_bounds(b, i) ==
    LET sub_width == b.w \div 2
        sub_height == b.h \div 2
    IN CASE i = 0 -> Rect(vertical_mid(b), b.y, sub_width, sub_height)
         [] i = 1 -> Rect(b.x, b.y, sub_width, sub_height)
         [] i = 2 -> Rect(b.x, horizontal_mid(b), sub_width, sub_height)
         [] OTHER -> Rect(vertical_mid(b), horizontal_mid(b), sub_width, sub_height)

RECURSIVE node_bounds(_, _)
node_bounds(w, p) ==
    IF p = Root THEN w
    ELSE child_bounds(node_bounds(w, SubSeq(p, 1, Len(p) - 1)), p[Len(p)])

split(t, p) ==
    [q \in DOMAIN t \cup {Append(p, i) : i \in 0..3} |->
        IF q \in DOMAIN t THEN t[q] ELSE {}]

get_index(b, r) ==
    LET in_left == right(r) <= vertical_mid(b)
        in_right == left(r) >= vertical_mid(b)
        in_top == bottom(r) <= horizontal_mid(b)
        in_bottom == top(r) >= horizontal_mid(b)
    IN IF in_left
       THEN IF in_top THEN 1
            ELSE IF in_bottom THEN 2
            ELSE -1
       ELSE IF in_right
       THEN IF in_top THEN 0
            ELSE IF in_bottom THEN 3
            ELSE -1
       ELSE -1

Min(S) == CHOOSE x \in S : \A y \in S : x <= y

\* insert(obj) on node p of tree t, for world w, capacity mo and depth limit ml;
\* rc is the rectangle each entity's shape reports now.  redistribute is the
\* loop over list(self.objects) that follows a split.
RECURSIVE insert(_, _, _, _, _, _, _), redistribute(_, _, _, _, _, _, _)
\* An insert that splits whatever the node's level is.
insert_at_any_level(t, w, mo, ml, rc, p, e) ==
    LET b == node_bounds(w, p)
        r == rc[e]
    IN IF r = None THEN t
       ELSE IF ~colliderect(b, r) THEN t
       ELSE IF has_children(t, p) /\ get_index(b, r) # -1
       THEN insert(t, w, mo, ml, rc, Append(p, get_index(b, r)), e)
       ELSE LET t1 == [t EXCEPT ![p] = @ \cup {e}]
            IN IF Cardinality(t1[p]) > mo
               THEN redistribute(IF has_children(t1, p) THEN t1 ELSE split(t1, p),
                                 w, mo, ml, rc, p, t1[p])
               ELSE t1

insert(t, w, mo, ml, rc, p, e) ==
    LET b == node_bounds(w, p)
        r == rc[e]
    IN IF r = None THEN t
       ELSE IF ~colliderect(b, r) THEN t
       ELSE IF has_children(t, p) /\ get_index(b, r) # -1
       THEN insert(t, w, mo, ml, rc, Append(p, get_index(b, r)), e)
       ELSE LET t1 == [t EXCEPT ![p] = @ \cup {e}]
            IN IF Cardinality(t1[p]) > mo /\ Len(p) < ml
               THEN redistribute(IF has_children(t1, p) THEN t1 ELSE split(t1, p),
                                 w, mo, ml, rc, p, t1[p])
               ELSE t1

redistribute(t, w, mo, ml, rc, p, todo) ==
    IF todo = {} THEN t
    ELSE LET o == Min(todo)
             b == node_bounds(w, p)
             index == IF rc[o] = None THEN -1 ELSE get_index(b, rc[o])
             t1 == IF index # -1
                   THEN [insert(t, w, mo, ml, rc, Append(p, index), o)
                            EXCEPT ![p] = @ \ {o}]
                   ELSE t
         IN redistribute(t1, w, mo, ml, rc, p, todo \ {o})

\* A _remove_recursive that forgets to descend into the child nodes.
remove_recursive_root_only(t, w, p, e, r) ==
    IF ~colliderect(node_bounds(w, p), r) THEN t
    ELSE [t EXCEPT ![p] = @ \ {e}]

\* _remove_recursive(obj, obj_rect) on node p.
RECURSIVE remove_recursive(_, _, _, _, _)
remove_recursive(t, w, p, e, r) ==
    IF ~colliderect(node_bounds(w, p), r) THEN t
    ELSE LET t1 == [t EXCEPT ![p] = @ \ {e}]
         IN IF has_children(t1, p)
            THEN remove_recursive(
                   remove_recursive(
                     remove_recursive(
                       remove_recursive(t1, w, Append(p, 0), e, r),
                       w, Append(p, 1), e, r),
                     w, Append(p, 2), e, r),
                   w, Append(p, 3), e, r)
            ELSE t1

\* remove(obj): with the rectangle the shape reports at the time of the call.
remove(t, w, rc, e) ==
    IF rc[e] = None THEN t ELSE remove_recursive(t, w, Root, e, rc[e])

\* update_object(obj): remove, then insert.
update_object(t, w, mo, ml, rc, e) ==
    insert(remove(t, w, rc, e), w, mo, ml, rc, Root, e)

\* retrieve(obj_rect) on node p.
RECURSIVE retrieve(_, _, _, _)
retrieve(t, w, p, q) ==
    LET b == node_bounds(w, p)
    IN IF ~colliderect(b, q) THEN {}
       ELSE IF has_children(t, p)
       THEN IF get_index(b, q) # -1
            THEN t[p] \cup retrieve(t, w, Append(p, get_index(b, q)), q)
            ELSE t[p] \cup UNION {retrieve(t, w, Append(p, i), q) : i \in 0..3}
       ELSE t[p]

\* ------------------------------------------------------------- tree inputs
\* World sizes the root is constructed with (an even and an odd one), and the
\* largest capacity and depth limit the constructor is given.
WorldSizes == {4, 5}
MaxCap == 2
MaxDepth == 2

\* Bounding rectangles the entities' shapes take: unit cells in every quadrant
\* and sub-quadrant, boxes straddling a midpoint of the root or of a child, and
\* boxes on (or reaching into) the last column, which lies inside the odd world
\* and outside the even one.
RectPool ==
    { Rect(0, 0, 1, 1), Rect(1, 1, 2, 2), Rect(3, 0, 2, 1),
      Rect(4, 0, 1, 1), Rect(0, 3, 1, 1), Rect(3, 3, 1, 1) }

\* Regions retrieve is called with, besides the whole world.
QueryPool == { Rect(4, 0, 1, 1), Rect(1, 1, 2, 2) }

\* How many times shapes are moved after construction, over all entities.
MaxMoves == 1

Nodes(t) == DOMAIN t
stored_in(t, e) == {p \in DOMAIN t : e \in t[p]}
in_tree(t, e) == stored_in(t, e) # {}

\* contained in the world rectangle (pygame.Rect.contains)
inside(w, r) ==
    /\ left(r) >= left(w) /\ right(r) <= right(w)
    /\ top(r) >= top(w) /\ bottom(r) <= bottom(w)

\* ---------------------------------------------------------------- history
\* hist[e].st is "out" until insert(e) is called, "clean" while every stored
\* copy of e was inserted with the rectangle e's shape reports now, and "dirty"
\* once the shape has changed since; hist[e].at is the rectangle of the last
\* insert.  A remove that leaves e in no node makes it "out" again.
hist_insert(h, rc, e) ==
    IF rc[e] = None THEN h
    ELSE [h EXCEPT ![e] = [st |-> IF @.st = "out" THEN "clean" ELSE @.st,
                           at |-> rc[e]]]

hist_remove(h, t, e) ==
    IF in_tree(t, e) THEN h ELSE [h EXCEPT ![e] = [st |-> "out", at |-> None]]

hist_move(h, e) ==
    [h EXCEPT ![e] = [st |-> IF @.st = "out" THEN "out" ELSE "dirty", at |-> @.at]]

\* ------------------------------------------------------------------ physics
\* A quotient num / den, for inverse_mass and drag.
Quotient(num, den) == [num |-> num, den |-> den]
times(v, q) == <<(v[1] * q.num) \div q.den, (v[2] * q.num) \div q.den>>
plus(u, v) == <<u[1] + v[1], u[2] + v[2]>>
minus(u, v) == <<u[1] - v[1], u[2] - v[2]>>
scaled(v, k) == <<v[1] * k, v[2] * k>>

\* PhysicsBody(position, velocity, mass, drag, friction, is_static,
\* enable_rotation, angular_velocity, angular_drag) and __post_init__;
\* acceleration, rotation and forces take their defaults.
PhysicsBody(position, velocity, mass, drag, friction, is_static, enable_rotation, angular_velocity, angular_drag) ==
    [position |-> position, velocity |-> velocity, acceleration |-> <<0, 0>>,
     mass |-> mass, drag |-> drag, friction |-> friction, is_static |-> is_static,
     rotation |-> 0, angular_velocity |-> angular_velocity,
     angular_drag |-> angular_drag, enable_rotation |-> enable_rotation,
     forces |-> <<0, 0>>,
     inverse_mass |-> IF is_static \/ mass <= 0 THEN Quotient(0, 1) ELSE Quotient(1, mass)]

\* apply_force as it would be without the test on is_static
apply_force_also_static(b, force) == [b EXCEPT !.forces = plus(@, force)]

\* PhysicsBody.apply_force(force)
apply_force(b, force) ==
    IF ~b.is_static THEN [b EXCEPT !.forces = plus(@, force)] ELSE b

\* PhysicsBody.apply_impulse(impulse)
apply_impulse(b, impulse) ==
    IF ~b.is_static THEN [b EXCEPT !.velocity = plus(@, times(impulse, b.inverse_mass))]
    ELSE b

\* integrate as it would be if the forces were kept for the next frame
integrate_keeping_forces(b, dt) ==
    IF b.is_static THEN [body |-> b, object_moved |-> FALSE]
    ELSE [body |-> [b EXCEPT !.position = plus(@, scaled(b.velocity, dt))],
          object_moved |-> b.velocity # <<0, 0>>]

\* PhysicsBody.integrate(dt): the body after the call and the object_moved of
\* the GameObjectUpdateRes it returns.
integrate(b, dt) ==
    IF b.is_static THEN [body |-> b, object_moved |-> FALSE]
    ELSE LET acc0 == times(b.forces, b.inverse_mass)
             acc1 == IF b.friction > 0 THEN minus(acc0, scaled(b.velocity, b.friction)) ELSE acc0
             acc == IF b.drag.num > 0 THEN minus(acc1, times(b.velocity, b.drag)) ELSE acc1
             velocity == plus(b.velocity, scaled(acc, dt))
             position == plus(b.position, scaled(velocity, dt))
             damping == IF 1 - b.angular_drag * dt > 0 THEN 1 - b.angular_drag * dt ELSE 0
             angular_velocity == IF b.enable_rotation
                                 THEN b.angular_velocity * damping
                                 ELSE b.angular_velocity
             rotation == IF b.enable_rotation
                         THEN b.rotation + angular_velocity * dt
                         ELSE b.rotation
         IN [body |-> [b EXCEPT !.velocity = velocity, !.position = position,
                                !.angular_velocity = angular_velocity,
                                !.rotation = rotation,
                                !.forces = <<0, 0>>, !.acceleration = acc],
             object_moved |-> \/ position # b.position
                              \/ (b.enable_rotation /\ rotation # b.rotation)]

\* ------------------------------------------------------------------ engine
Engines == {1, 2}

\* No engine has registered anything and no tick is running.
IdleRegistry ==
    /\ next_obj_id = [g \in Engines |-> 0]
    /\ game_objs = << >>
    /\ game_objs_by_type = {}
    /\ obj_id = [e \in Ent |-> 0]
    /\ pc = "idle"
    /\ snapshot = << >>
    /\ objs_moved = << >>
    /\ cursor = 1
    /\ collisions = << >>
    /\ log = << >>
    /\ issued = [g \in Engines |-> << >>]
    /\ own = [g \in Engines |-> {}]
    /\ removed = {}
    /\ ticks = 0

\* No engine has registered anything, no tick is running, and the physics
\* body is PhysicsBody().
IdleEngine ==
    /\ IdleRegistry
    /\ body = PhysicsBody(<<0, 0>>, <<0, 0>>, 1, Quotient(0, 1), 0, FALSE, FALSE, 0, 0)
    /\ shape_position = <<0, 0>>

\* An engine of the base class whose entities all carry a RectShape.
NoEngine ==
    /\ cls = "Engine"
    /\ shape_class = [e \in Ent |-> "RectShape"]
    /\ collidable = [e \in Ent |-> TRUE]
    /\ IdleEngine

\* ------------------------------------------------------ tree specification
\* A fresh tree SpatialQuadTree(bounds, max_objects, max_levels) and the
\* entities E constructed with their shapes; the other entities have none.
InitTreeOf(E) ==
    /\ bounds \in {Rect(0, 0, s, s) : s \in WorldSizes}
    /\ max_objects \in 1..MaxCap
    /\ max_levels \in 1..MaxDepth
    /\ rect \in [Ent -> RectPool \cup {None}]
    /\ \A e \in Ent \ E : rect[e] = None
    /\ tree = [p \in {Root} |-> {}]
    /\ hist = [e \in Ent |-> [st |-> "out", at |-> None]]
    /\ last = [op |-> "init"]
    /\ moves = 0
    /\ NoEngine

\* SpatialQuadTree.insert(obj)
InsertStep(e) ==
    /\ tree' = insert(tree, bounds, max_objects, max_levels, rect, Root, e)
    /\ hist' = hist_insert(hist, rect, e)
    /\ last' = [op |-> "insert", e |-> e]
    /\ UNCHANGED <<bounds, max_objects, max_levels, rect, moves, engineVars>>

\* SpatialQuadTree.remove(obj)
RemoveStep(e) ==
    /\ tree' = remove(tree, bounds, rect, e)
    /\ hist' = hist_remove(hist, tree', e)
    /\ last' = [op |-> "remove", e |-> e, was |-> hist[e].st]
    /\ UNCHANGED <<bounds, max_objects, max_levels, rect, moves, engineVars>>

\* SpatialQuadTree.update_object(obj)
UpdateObjectStep(e) ==
    /\ tree' = update_object(tree, bounds, max_objects, max_levels, rect, e)
    /\ hist' = hist_insert(hist_remove(hist, remove(tree, bounds, rect, e), e), rect, e)
    /\ last' = [op |-> "update_object", e |-> e, was |-> hist[e].st, old |-> hist[e].at]
    /\ UNCHANGED <<bounds, max_objects, max_levels, rect, moves, engineVars>>

\* The owning entity moves its shape: the bounding rectangle changes, the tree
\* is not told.
MoveShape(e, r) ==
    /\ moves < MaxMoves
    /\ moves' = moves + 1
    /\ rect[e] # None
    /\ r # rect[e]
    /\ rect' = [rect EXCEPT ![e] = r]
    /\ hist' = hist_move(hist, e)
    /\ last' = [op |-> "move"]
    /\ UNCHANGED <<bounds, max_objects, max_levels, tree, engineVars>>

\* SpatialQuadTree.retrieve(obj_rect)
RetrieveStep(q) ==
    /\ last' = [op |-> "retrieve", q |-> q, found |-> retrieve(tree, bounds, Root, q)]
    /\ UNCHANGED <<bounds, max_objects, max_levels, rect, tree, hist, moves, engineVars>>

\* The tree's whole interface, on the entities of TreeEnt.
NextTree ==
    \/ \E e \in TreeEnt : InsertStep(e)
    \/ \E e \in TreeEnt : RemoveStep(e)
    \/ \E e \in TreeEnt : UpdateObjectStep(e)
    \/ \E e \in TreeEnt, r \in RectPool : MoveShape(e, r)
    \/ \E q \in QueryPool \cup {bounds} : RetrieveStep(q)

SpecTree == InitTreeOf(TreeEnt) /\ [][NextTree]_vars

\* A fresh tree that is only inserted into and then queried over the world.
NextInsert ==
    \/ \E e \in Ent : InsertStep(e)
    \/ RetrieveStep(bounds)

SpecInsert == InitTreeOf(Ent) /\ [][NextInsert]_vars

\* Inserts into a fresh tree whose children have an odd size: a world of six
\* by six splits into children of three by three.
StoreSizes == {4, 6}
StorePool == {Rect(0, 0, 1, 1), Rect(2, 0, 1, 1), Rect(1, 1, 2, 2), Rect(3, 3, 1, 1)}
InitStore ==
    /\ bounds \in {Rect(0, 0, s, s) : s \in StoreSizes}
    /\ max_objects \in 1..MaxCap
    /\ max_levels \in 1..MaxDepth
    /\ rect \in [Ent -> StorePool]
    /\ tree = [p \in {Root} |-> {}]
    /\ hist = [e \in Ent |-> [st |-> "out", at |-> None]]
    /\ last = [op |-> "init"]
    /\ moves = 0
    /\ NoEngine

SpecStore == InitStore /\ [][NextInsert]_vars

TypeTree ==
    /\ \A p \in DOMAIN tree : tree[p] \subseteq Ent /\ Len(p) <= max_levels
    /\ \A e \in Ent : hist[e].st \in {"out", "clean", "dirty"}

\* ---------------------------------------------------------------- registry
\* How many add_game_object calls one engine instance receives.
MaxIds == 3
Ids == 0..(MaxIds - 1)

\* get_game_object_by_id answering None
NoObj == 0

\* GameObject.getType(): odd entities are of type 1, even ones of type 2.
getType(e) == IF e % 2 = 1 THEN 1 ELSE 2
Types == {1, 2}

\* An insertion-ordered dict as the sequence of its [id, obj] items.
dict_has(d, k) == \E i \in 1..Len(d) : d[i].id = k
dict_get(d, k) ==
    IF dict_has(d, k) THEN d[CHOOSE i \in 1..Len(d) : d[i].id = k].obj ELSE NoObj
dict_set(d, k, v) ==
    IF dict_has(d, k)
    THEN [i \in 1..Len(d) |-> IF d[i].id = k THEN [id |-> k, obj |-> v] ELSE d[i]]
    ELSE Append(d, [id |-> k, obj |-> v])
dict_keep(x, k) == x.id # k
dict_del(d, k) == SelectSeq(d, LAMBDA x : dict_keep(x, k))
dict_values(d) == [i \in 1..Len(d) |-> d[i].obj]

\* Engine._next_id: the value next_obj_id takes after the call, as one that
\* forgets to advance would leave it, and as the code leaves it.
next_id_stuck(n) == n
next_id_after(n) == n + 1

\* Engine.get_game_object_by_id / get_game_objects_by_type (None: no such key)
get_game_object_by_id(id) == dict_get(game_objs, id)
get_game_objects_by_type(t) == {<<x[2], x[3]>> : x \in {y \in game_objs_by_type : y[1] = t}}

is_registered(e) == \E i \in 1..Len(game_objs) : game_objs[i].obj = e

\* Engine.add_game_object(obj) on engine g; the QuadTreeEngine override then
\* inserts the object into its spatial tree.
add_game_object(g, e) ==
    /\ Len(issued[g]) < MaxIds
    /\ LET id == next_obj_id[g]
       IN /\ next_obj_id' = [next_obj_id EXCEPT ![g] = next_id_after(@)]
          /\ obj_id' = [obj_id EXCEPT ![e] = id]
          /\ game_objs_by_type' =
                {x \in game_objs_by_type : ~(x[1] = getType(e) /\ x[2] = id)}
                    \cup {<<getType(e), id, e>>}
          /\ game_objs' = dict_set(game_objs, id, e)
          /\ issued' = [issued EXCEPT ![g] = Append(@, id)]
          /\ own' = [own EXCEPT ![g] = {x \in @ : x[1] # id} \cup {<<id, e>>}]
          /\ removed' = removed \ {e}
    /\ tree' = IF g = 1 /\ cls = "QuadTreeEngine"
               THEN insert(tree, bounds, max_objects, max_levels, rect, Root, e)
               ELSE tree
    /\ UNCHANGED <<bounds, max_objects, max_levels, rect, hist, last, moves,
                   objectVars, tickVars>>

\* add_game_object is called between two ticks.
AddGameObject(g, e) == pc = "idle" /\ add_game_object(g, e)

\* Engine.remove_game_object(obj_id) on engine g; the QuadTreeEngine override
\* first removes the object from its spatial tree.
remove_game_object(g, id) ==
    /\ LET obj == get_game_object_by_id(id)
       IN /\ tree' = IF g = 1 /\ cls = "QuadTreeEngine" /\ obj # NoObj
                     THEN remove(tree, bounds, rect, obj)
                     ELSE tree
          /\ IF dict_has(game_objs, id)
             THEN /\ game_objs_by_type' =
                        {x \in game_objs_by_type : ~(x[1] = getType(obj) /\ x[2] = id)}
                  /\ game_objs' = dict_del(game_objs, id)
             ELSE UNCHANGED <<game_objs, game_objs_by_type>>
    /\ own' = [own EXCEPT ![g] = {x \in @ : x[1] # id}]
    /\ removed' = IF dict_has(game_objs, id)
                  THEN removed \cup {get_game_object_by_id(id)}
                  ELSE removed
    /\ UNCHANGED <<bounds, max_objects, max_levels, rect, hist, last, moves,
                   objectVars, tickVars,
                   next_obj_id, obj_id, issued>>

\* remove_game_object is called between two ticks.
RemoveGameObject(g, id) == pc = "idle" /\ remove_game_object(g, id)

\* Two instances of Engine in one process, each registering and unregistering.
InitRegistry ==
    /\ bounds = Rect(0, 0, 4, 4)
    /\ max_objects = 1
    /\ max_levels = 1
    /\ rect = [e \in Ent |-> Rect(0, 0, 1, 1)]
    /\ tree = [p \in {Root} |-> {}]
    /\ hist = [e \in Ent |-> [st |-> "out", at |-> None]]
    /\ last = [op |-> "init"]
    /\ moves = 0
    /\ NoEngine

\* The caller registers an object that no engine holds at the moment.
fresh(e) == \A g \in Engines : \A x \in own[g] : x[2] # e

NextRegistry ==
    \/ \E g \in Engines, e \in Ent : fresh(e) /\ AddGameObject(g, e)
    \/ \E g \in Engines, id \in Ids : RemoveGameObject(g, id)

SpecRegistry == InitRegistry /\ [][NextRegistry]_vars

\* One engine whose caller may also register an object it has registered
\* before and not unregistered.
NextReadd ==
    \/ \E e \in Ent : AddGameObject(1, e)
    \/ \E id \in Ids : RemoveGameObject(1, id)

SpecReadd == InitRegistry /\ [][NextReadd]_vars

\* -------------------------------------------------------------- narrow phase
\* The result of a narrow-phase call: None, a CollisionInfo (contact point in
\* half units, since the handler halves a width or height), or the
\* NotImplementedError that detect raises.
Result(kind, contact, normal, penetration) ==
    [kind |-> kind, contact |-> contact, normal |-> normal, penetration |-> penetration]
NoCollision == Result("None", <<0, 0>>, <<0, 0>>, 0)
NotImplementedError == Result("NotImplementedError", <<0, 0>>, <<0, 0>>, 0)

\* rect_intersects_rect as it would be if rectangles that only touch were apart
rect_intersects_rect_apart_on_touch(r1, r2) ==
    IF \/ r1.x + r1.w <= r2.x
       \/ r2.x + r2.w <= r1.x
       \/ r1.y + r1.h <= r2.y
       \/ r2.y + r2.h <= r1.y
    THEN NoCollision
    ELSE LET penetrations == <<(r1.x + r1.w) - r2.x, (r2.x + r2.w) - r1.x,
                               (r1.y + r1.h) - r2.y, (r2.y + r2.h) - r1.y>>
         IN Result("CollisionInfo", <<0, 0>>, <<0, 0>>,
                   Min({penetrations[i] : i \in 1..4}))

\* rect_intersects_rect(s1, s2) on the rectangles of the two shapes
rect_intersects_rect(r1, r2) ==
    IF \/ r1.x + r1.w < r2.x
       \/ r2.x + r2.w < r1.x
       \/ r1.y + r1.h < r2.y
       \/ r2.y + r2.h < r1.y
    THEN NoCollision
    ELSE LET left_overlap == (r1.x + r1.w) - r2.x
             right_overlap == (r2.x + r2.w) - r1.x
             top_overlap == (r1.y + r1.h) - r2.y
             bottom_overlap == (r2.y + r2.h) - r1.y
             penetrations == <<left_overlap, right_overlap, top_overlap, bottom_overlap>>
             min_penetration == Min({penetrations[i] : i \in 1..4})
             min_idx == Min({i \in 1..4 : penetrations[i] = min_penetration})
         IN IF min_idx = 1
            THEN Result("CollisionInfo", <<2 * r2.x, 2 * r1.y + r1.h>>, <<-1, 0>>, min_penetration)
            ELSE IF min_idx = 2
            THEN Result("CollisionInfo", <<2 * (r2.x + r2.w), 2 * r1.y + r1.h>>, <<1, 0>>, min_penetration)
            ELSE IF min_idx = 3
            THEN Result("CollisionInfo", <<2 * r1.x + r1.w, 2 * r2.y>>, <<0, -1>>, min_penetration)
            ELSE Result("CollisionInfo", <<2 * r1.x + r1.w, 2 * (r2.y + r2.h)>>, <<0, 1>>, min_penetration)

\* A circle of a CircleShape: centre and radius.
Circle(x, y, r) == [x |-> x, y |-> y, r |-> r]

Abs(n) == IF n < 0 THEN -n ELSE n

\* Vector2.length() of the vector (dx, dy), for the vectors whose length is a
\* whole number (the circles of this model have their centres on one row).
length(dx, dy) == CHOOSE d \in 0..(Abs(dx) + Abs(dy)) : d * d = dx * dx + dy * dy

\* circle_intersects_circle(s1, s2); the contact point is doubled like that of
\* rect_intersects_rect. Centres at the same position are the code's
\* distance < 1e-6 case.
circle_intersects_circle(c1, c2) ==
    LET dx == c2.x - c1.x
        dy == c2.y - c1.y
        distance == length(dx, dy)
        combined_radius == c1.r + c2.r
    IN IF distance > combined_radius THEN NoCollision
       ELSE IF distance = 0
       THEN Result("CollisionInfo", <<2 * (c1.x + c1.r), 2 * c1.y>>, <<1, 0>>, combined_radius)
       ELSE Result("CollisionInfo",
                   <<2 * (c1.x + (dx \div distance) * c1.r),
                     2 * (c1.y + (dy \div distance) * c1.r)>>,
                   <<dx \div distance, dy \div distance>>,
                   combined_radius - distance)

\* default_detectors: the list of (type_a, type_b, handler)
default_detectors ==
    << <<"CircleShape", "CircleShape", "circle_intersects_circle">>,
       <<"RectShape", "CircleShape", "rect_intersects_circle">>,
       <<"LineShape", "CircleShape", "line_intersects_circle">>,
       <<"PolygonShape", "CircleShape", "polygon_intersects_circle">>,
       <<"RectShape", "RectShape", "rect_intersects_rect">>,
       <<"RectShape", "LineShape", "rect_intersects_line">>,
       <<"RectShape", "PolygonShape", "rect_intersects_polygon">>,
       <<"LineShape", "LineShape", "line_intersects_line">>,
       <<"LineShape", "PolygonShape", "line_intersects_polygon">>,
       <<"PolygonShape", "PolygonShape", "polygon_intersects_polygon">> >>

\* d[k] = v on a dict held as a function
put(d, k, v) == [x \in DOMAIN d \cup {k} |-> IF x = k THEN v ELSE d[x]]

\* CollisionDetector.add(type_a, type_b, handler): the handler itself under
\* (type_a, type_b), then lambda b, a: handler(a, b) under (type_b, type_a).
\* An entry is the handler's name and whether the lambda wraps it.
add(d, type_a, type_b, handler) ==
    put(put(d, <<type_a, type_b>>, [handler |-> handler, swapped |-> FALSE]),
        <<type_b, type_a>>, [handler |-> handler, swapped |-> TRUE])

\* CollisionDetector.__init__: add() for each entry of the list, in order
RECURSIVE add_all(_, _)
add_all(d, detectors) ==
    IF detectors = << >> THEN d
    ELSE add_all(add(d, Head(detectors)[1], Head(detectors)[2], Head(detectors)[3]),
                 Tail(detectors))

\* CollisionDetector._registry after CollisionDetector(default_detectors)
registry == add_all(<< >>, default_detectors)

\* handler(s1, s2) for a handler of the registry. The two same-kind handlers
\* for rectangles and circles are computed; a call of another handler is kept
\* as the call itself.
call(handler, s1, s2) ==
    IF handler = "rect_intersects_rect" THEN rect_intersects_rect(s1, s2)
    ELSE IF handler = "circle_intersects_circle" THEN circle_intersects_circle(s1, s2)
    ELSE [kind |-> "Call", handler |-> handler, s1 |-> s1, s2 |-> s2]

\* detect as it would be if a missing handler meant 'no collision'
detect_none_when_missing(ta, tb, sa, sb) ==
    IF <<ta, tb>> \notin DOMAIN registry THEN NoCollision
    ELSE IF registry[<<ta, tb>>].swapped
    THEN call(registry[<<ta, tb>>].handler, sb, sa)
    ELSE call(registry[<<ta, tb>>].handler, sa, sb)

\* CollisionDetector.detect(a, b) for shapes sa, sb of classes ta, tb: the
\* wrapped entry is lambda b, a: handler(a, b) called with (a, b).
detect(ta, tb, sa, sb) ==
    IF <<ta, tb>> \notin DOMAIN registry THEN NotImplementedError
    ELSE IF registry[<<ta, tb>>].swapped
    THEN call(registry[<<ta, tb>>].handler, sb, sa)
    ELSE call(registry[<<ta, tb>>].handler, sa, sb)

\* type(obj) of an entity and whether get_collision_shape() returns a shape
object_class(e) == "Car"
has_shape(e) == rect[e] # None

\* ---------------------------------------------------------------------- tick
\* How many ticks one behaviour runs.
MaxTicks == 1

\* The bounding boxes an entity's update can move its shape to.
EngineRects == {Rect(0, 0, 2, 2), Rect(1, 1, 2, 2), Rect(3, 3, 1, 1)}

\* One call made during the tick.
Entry(ev, a, b, info, cands) ==
    [ev |-> ev, a |-> a, b |-> b, info |-> info, cands |-> cands]

\* The orders in which a for loop can run over the set S.
Orders(S) ==
    {o \in [1..Cardinality(S) -> S] : \A i, j \in 1..Cardinality(S) : o[i] = o[j] => i = j}

\* The inner loop of the collision phase for the moved object a over its
\* candidates in the given order, in Engine.update (c = "Engine") and in
\* QuadTreeEngine.update; acc carries collisions, the log and whether detect
\* raised out of the loop.
RECURSIVE collide_candidates(_, _, _, _)
collide_candidates(c, a, order, acc) ==
    IF order = << >> THEN acc
    ELSE LET b == Head(order)
             rest == Tail(order)
         IN IF c = "Engine"
            THEN IF a = b THEN collide_candidates(c, a, rest, acc)
                 ELSE LET collision == detect(object_class(a), object_class(b), rect[a], rect[b])
                          logged == [acc EXCEPT !.log = Append(@, Entry("detect", a, b, collision, {}))]
                      IN IF collision.kind = "NotImplementedError"
                         THEN [logged EXCEPT !.raised = TRUE]
                         ELSE IF collision.kind = "None"
                         THEN collide_candidates(c, a, rest, logged)
                         ELSE collide_candidates(c, a, rest,
                                [logged EXCEPT !.collisions = Append(@, [info |-> collision, a |-> a, b |-> b])])
            ELSE IF a = b \/ ~collidable[b] THEN collide_candidates(c, a, rest, acc)
                 ELSE IF ~has_shape(b) THEN collide_candidates(c, a, rest, acc)
                 ELSE LET collision == detect(shape_class[a], shape_class[b], rect[a], rect[b])
                          logged == [acc EXCEPT !.log = Append(@, Entry("detect", a, b, collision, {}))]
                      IN IF collision.kind = "CollisionInfo"
                         THEN collide_candidates(c, a, rest,
                                [logged EXCEPT !.collisions = Append(@, [info |-> collision, a |-> a, b |-> b])])
                         ELSE collide_candidates(c, a, rest, logged)

\* The phases of update() in the order the class runs them.
next_phase(c, ph) ==
    IF c = "Engine"
    THEN CASE ph = "update" -> "spatial"
           [] ph = "spatial" -> "collide"
           [] ph = "collide" -> "dispatch"
           [] OTHER -> "done"
    ELSE CASE ph = "update" -> "collide"
           [] ph = "collide" -> "dispatch"
           [] ph = "dispatch" -> "spatial"
           [] OTHER -> "done"

\* for game_obj in live_values, as it would be without the copy
iterated_live(copied, live_values) == live_values

\* for game_obj in list(self.game_objs.values()): the loop runs over the copy
\* taken when it started, whatever the dict holds by now.
iterated(copied, live_values) == copied

\* The list the loop of a phase runs over.
phase_list(ph) ==
    CASE ph = "update" -> iterated(snapshot, dict_values(game_objs))
      [] ph = "dispatch" -> collisions
      [] OTHER -> objs_moved

\* update(dt) is called: list(self.game_objs.values()) is taken.
TickStart ==
    /\ pc = "idle"
    /\ ticks < MaxTicks
    /\ pc' = "update"
    /\ ticks' = ticks + 1
    /\ snapshot' = dict_values(game_objs)
    /\ objs_moved' = << >>
    /\ collisions' = << >>
    /\ log' = << >>
    /\ cursor' = 1
    /\ UNCHANGED <<treeVars, objectVars, registryVars>>

\* game_obj.update(screen, self, dt): the object may move its shape to r and
\* says whether it moved.
UpdateStep(moved, r) ==
    /\ pc = "update"
    /\ cursor <= Len(phase_list(pc))
    /\ LET game_obj == phase_list(pc)[cursor]
       IN /\ IF moved THEN r \in EngineRects ELSE r = rect[game_obj]
          /\ rect' = [rect EXCEPT ![game_obj] = r]
          /\ objs_moved' = IF moved THEN Append(objs_moved, game_obj) ELSE objs_moved
          /\ log' = Append(log, Entry("update", game_obj, 0, NoCollision, {}))
    /\ cursor' = cursor + 1
    /\ UNCHANGED <<bounds, max_objects, max_levels, tree, hist, last, moves,
                   objectVars, registryVars,
                   pc, snapshot, collisions, ticks>>

\* self.spatial_tree.update_object(moved_obj)
SpatialStep ==
    /\ pc = "spatial"
    /\ cursor <= Len(objs_moved)
    /\ LET moved_obj == objs_moved[cursor]
       IN /\ tree' = update_object(tree, bounds, max_objects, max_levels, rect, moved_obj)
          /\ log' = Append(log, Entry("update_object", moved_obj, 0, NoCollision, {}))
    /\ cursor' = cursor + 1
    /\ UNCHANGED <<bounds, max_objects, max_levels, rect, hist, last, moves,
                   objectVars, registryVars,
                   pc, snapshot, objs_moved, collisions, ticks>>

\* One moved object of the collision phase: the broad-phase retrieve over its
\* bounding box and the narrow phase over the candidates, in the order the
\* returned set iterates.
CollideStep ==
    /\ pc = "collide"
    /\ cursor <= Len(objs_moved)
    /\ LET moved_obj == objs_moved[cursor]
       IN IF ~has_shape(moved_obj)
          THEN /\ cursor' = cursor + 1
               /\ UNCHANGED <<pc, collisions, log>>
          ELSE LET collision_objs == retrieve(tree, bounds, Root, rect[moved_obj])
                   start == [collisions |-> collisions,
                             log |-> Append(log, Entry("retrieve", moved_obj, 0,
                                                       NoCollision, collision_objs)),
                             raised |-> FALSE]
               IN \E order \in Orders(collision_objs) :
                    LET end == collide_candidates(cls, moved_obj, order, start)
                    IN /\ collisions' = end.collisions
                       /\ log' = end.log
                       /\ pc' = IF end.raised THEN "raised" ELSE pc
                       /\ cursor' = IF end.raised THEN cursor ELSE cursor + 1
    /\ UNCHANGED <<treeVars, objectVars, registryVars,
                   snapshot, objs_moved, ticks>>

\* obj1.on_collision(self, obj2, collision_info);
\* obj2.on_collision(self, obj1, collision_info)
DispatchStep ==
    /\ pc = "dispatch"
    /\ cursor <= Len(collisions)
    /\ LET collision == collisions[cursor]
       IN log' = log \o << Entry("on_collision", collision.a, collision.b, collision.info, {}),
                           Entry("on_collision", collision.b, collision.a, collision.info, {}) >>
    /\ cursor' = cursor + 1
    /\ UNCHANGED <<treeVars, objectVars, registryVars,
                   pc, snapshot, objs_moved, collisions, ticks>>

\* A loop of update() has run over its whole list: the next loop starts, or
\* update() returns.
PhaseEnd ==
    /\ pc \in {"update", "spatial", "collide", "dispatch"}
    /\ cursor > Len(phase_list(pc))
    /\ pc' = next_phase(cls, pc)
    /\ cursor' = 1
    /\ UNCHANGED <<treeVars, objectVars, registryVars,
                   snapshot, objs_moved, collisions, log, ticks>>

\* update() has returned, or the exception has left it: the engine is idle.
TickReturn ==
    /\ pc \in {"done", "raised"}
    /\ pc' = "idle"
    /\ snapshot' = << >>
    /\ objs_moved' = << >>
    /\ collisions' = << >>
    /\ log' = << >>
    /\ cursor' = 1
    /\ UNCHANGED <<treeVars, objectVars, registryVars, ticks>>

\* One engine, of class Engine or QuadTreeEngine, over a 4 x 4 world; the last
\* entity may carry a shape of a class no handler is registered for, or may
\* report itself not collidable.
InitEngine ==
    /\ bounds = Rect(0, 0, 4, 4)
    /\ max_objects = 1
    /\ max_levels = 1
    /\ rect \in [Ent -> EngineRects]
    /\ tree = [p \in {Root} |-> {}]
    /\ hist = [e \in Ent |-> [st |-> "out", at |-> None]]
    /\ last = [op |-> "init"]
    /\ moves = 0
    /\ cls \in {"Engine", "QuadTreeEngine"}
    /\ shape_class \in {[e \in Ent |-> IF e = NEnt THEN k ELSE "RectShape"] :
                           k \in {"RectShape", "CustomShape"}}
    /\ collidable \in {[e \in Ent |-> e # NEnt \/ k] : k \in BOOLEAN}
    /\ collidable[NEnt] \/ shape_class[NEnt] = "RectShape"
    /\ IdleEngine

NextEngine ==
    \/ \E e \in Ent : ~is_registered(e) /\ AddGameObject(1, e)
    \/ \E id \in Ids : RemoveGameObject(1, id)
    \/ TickStart
    \/ \E moved \in BOOLEAN, r \in EngineRects : UpdateStep(moved, r)
    \/ SpatialStep
    \/ CollideStep
    \/ DispatchStep
    \/ PhaseEnd
    \/ TickReturn

SpecEngine == InitEngine /\ [][NextEngine]_vars

\* ------------------------------------------------------- re-entrant calls
\* The update call of the entity the loop has reached registers an object
\* before it returns.
ReentrantAdd(e) ==
    /\ pc = "update"
    /\ cursor <= Len(phase_list(pc))
    /\ add_game_object(1, e)

\* The update call of the entity the loop has reached unregisters an object
\* before it returns.
ReentrantRemove(id) ==
    /\ pc = "update"
    /\ cursor <= Len(phase_list(pc))
    /\ remove_game_object(1, id)

\* One engine whose entities all start on the same box and may register and
\* unregister objects from their update calls.
InitReentrant ==
    /\ bounds = Rect(0, 0, 4, 4)
    /\ max_objects = 1
    /\ max_levels = 1
    /\ rect = [e \in Ent |-> Rect(0, 0, 2, 2)]
    /\ tree = [p \in {Root} |-> {}]
    /\ hist = [e \in Ent |-> [st |-> "out", at |-> None]]
    /\ last = [op |-> "init"]
    /\ moves = 0
    /\ cls \in {"Engine", "QuadTreeEngine"}
    /\ shape_class = [e \in Ent |-> "RectShape"]
    /\ collidable = [e \in Ent |-> TRUE]
    /\ IdleEngine

NextReentrant ==
    \/ \E e \in Ent : ~is_registered(e) /\ AddGameObject(1, e)
    \/ \E id \in Ids : RemoveGameObject(1, id)
    \/ TickStart
    \/ \E e \in Ent : ~is_registered(e) /\ ReentrantAdd(e)
    \/ \E id \in Ids : ReentrantRemove(id)
    \/ \E moved \in BOOLEAN, r \in EngineRects : UpdateStep(moved, r)
    \/ SpatialStep
    \/ CollideStep
    \/ DispatchStep
    \/ PhaseEnd
    \/ TickReturn

SpecReentrant == InitReentrant /\ [][NextReentrant]_vars

\* The update call of the entity the loop has reached unregisters another
\* registered object before it returns.
UpdateRemove(id) ==
    /\ pc = "update"
    /\ cursor <= Len(phase_list(pc))
    /\ get_game_object_by_id(id) \notin {NoObj, phase_list(pc)[cursor]}
    /\ remove_game_object(1, id)

\* An on_collision call of the collision the dispatch loop has reached
\* unregisters a registered object that is neither of the two colliding.
DispatchRemove(id) ==
    /\ pc = "dispatch"
    /\ cursor <= Len(phase_list(pc))
    /\ get_game_object_by_id(id) \notin {NoObj, collisions[cursor].a, collisions[cursor].b}
    /\ remove_game_object(1, id)

\* One engine whose entities unregister one another from their callbacks.
NextCallback ==
    \/ \E e \in Ent : ~is_registered(e) /\ AddGameObject(1, e)
    \/ \E id \in Ids : RemoveGameObject(1, id)
    \/ TickStart
    \/ \E id \in Ids : UpdateRemove(id)
    \/ \E id \in Ids : DispatchRemove(id)
    \/ \E moved \in BOOLEAN, r \in EngineRects : UpdateStep(moved, r)
    \/ SpatialStep
    \/ CollideStep
    \/ DispatchStep
    \/ PhaseEnd
    \/ TickReturn

SpecCallback == InitReentrant /\ [][NextCallback]_vars

\* ------------------------------------------------------------------ raycast
\* A ray direction is a unit vector (n[1] / 5, n[2] / 5) given by its
\* numerators, a max_distance is a multiple m of 5, and a parameter t along
\* the ray is counted in units of 5 / 12, so that every quotient the code
\* forms is a whole number: (c - o) / (n / 5) is 12 * (c - o) / n units.
slab(c, o, n) == (12 * (c - o)) \div n

\* float('inf') of the slab method, in the same units
inf == 100000

Max(S) == CHOOSE x \in S : \A y \in S : y <= x

\* No hit, and a RaycastHit: the point in twelfths, the normal, the distance.
NoHit == [kind |-> "None", point |-> <<0, 0>>, normal |-> <<0, 0>>, distance |-> 0]
RaycastHit(point, normal, distance) ==
    [kind |-> "RaycastHit", point |-> point, normal |-> normal, distance |-> distance]

\* RectShape.intersects_ray(origin, direction, max_distance) for the rect r
intersects_ray(r, origin, n, max_distance) ==
    IF n[1] = 0 /\ n[2] = 0 THEN NoHit
    ELSE IF n[1] = 0 /\ (origin[1] < left(r) \/ origin[1] > right(r)) THEN NoHit
    ELSE IF n[2] = 0 /\ (origin[2] < top(r) \/ origin[2] > bottom(r)) THEN NoHit
    ELSE LET xs == {slab(left(r), origin[1], n[1]), slab(right(r), origin[1], n[1])}
             ys == {slab(top(r), origin[2], n[2]), slab(bottom(r), origin[2], n[2])}
             t_min_x == IF n[1] # 0 THEN Min(xs) ELSE -inf
             t_max_x == IF n[1] # 0 THEN Max(xs) ELSE inf
             t_min_y == IF n[2] # 0 THEN Min(ys) ELSE -inf
             t_max_y == IF n[2] # 0 THEN Max(ys) ELSE inf
             t_min == Max({t_min_x, t_min_y})
             t_max == Min({t_max_x, t_max_y})
             t == IF t_min >= 0 THEN t_min ELSE t_max
             hit_point == <<12 * origin[1] + n[1] * t, 12 * origin[2] + n[2] * t>>
         IN IF t_max < 0 \/ t_min > t_max THEN NoHit
            ELSE IF t > max_distance THEN NoHit
            ELSE RaycastHit(hit_point,
                    IF hit_point[1] = 12 * left(r) THEN <<-1, 0>>
                    ELSE IF hit_point[1] = 12 * right(r) THEN <<1, 0>>
                    ELSE IF hit_point[2] = 12 * top(r) THEN <<0, -1>>
                    ELSE IF hit_point[2] = 12 * bottom(r) THEN <<0, 1>>
                    ELSE <<0, 0>>,
                    t)

\* create_ray_bounds(start, end)
create_ray_bounds(start, end) ==
    LET min_x == Min({start[1], end[1]})
        min_y == Min({start[2], end[2]})
        max_x == Max({start[1], end[1]})
        max_y == Max({start[2], end[2]})
    IN Rect(min_x, min_y, max_x - min_x, max_y - min_y)

\* The loop of raycast as it would be without the test on hits_lim
RECURSIVE raycast_loop_unlimited(_, _, _, _, _, _, _)
raycast_loop_unlimited(potential_objects, hits, origin, n, max_distance, hits_lim, ignore_obj_types) ==
    IF potential_objects = << >> THEN hits
    ELSE LET obj == Head(potential_objects)
             hit == intersects_ray(rect[obj], origin, n, max_distance)
             keep == /\ getType(obj) \notin ignore_obj_types
                     /\ collidable[obj]
                     /\ has_shape(obj)
                     /\ hit.kind = "RaycastHit"
         IN raycast_loop_unlimited(Tail(potential_objects),
                IF keep THEN Append(hits, [obj |-> obj, hit |-> hit]) ELSE hits,
                origin, n, max_distance, hits_lim, ignore_obj_types)

\* The loop of raycast over the candidates in iteration order
RECURSIVE raycast_loop(_, _, _, _, _, _, _)
raycast_loop(potential_objects, hits, origin, n, max_distance, hits_lim, ignore_obj_types) ==
    IF potential_objects = << >> THEN hits
    ELSE IF Len(hits) >= hits_lim THEN hits
    ELSE LET obj == Head(potential_objects)
             rest == Tail(potential_objects)
         IN IF getType(obj) \in ignore_obj_types
            THEN raycast_loop(rest, hits, origin, n, max_distance, hits_lim, ignore_obj_types)
            ELSE IF ~collidable[obj]
            THEN raycast_loop(rest, hits, origin, n, max_distance, hits_lim, ignore_obj_types)
            ELSE IF ~has_shape(obj)
            THEN raycast_loop(rest, hits, origin, n, max_distance, hits_lim, ignore_obj_types)
            ELSE LET hit == intersects_ray(rect[obj], origin, n, max_distance)
                 IN raycast_loop(rest,
                        IF hit.kind = "RaycastHit"
                        THEN Append(hits, [obj |-> obj, hit |-> hit]) ELSE hits,
                        origin, n, max_distance, hits_lim, ignore_obj_types)

\* The rays cast: origins, directions (numerators over 5), max_distance in
\* multiples of 5, hits_lim and the sets of ignored types.
RayOrigins == {<<0, 0>>, <<4, 4>>}
RayDirections == {<<3, 4>>, <<-4, -3>>}
RayLengths == {1}
HitsLims == {-1, 0, 1, 2}
IgnoreSets == {{}, {2}}

\* The boxes of the entities a ray is cast at.
RayRects == {Rect(1, 1, 1, 1), Rect(2, 2, 2, 2), Rect(3, 0, 1, 1)}

\* Engine.raycast(origin, direction, max_distance, hits_lim, ignore_obj_tpyes):
\* raycast() on the engine's spatial tree; the candidates come in the order
\* the retrieved set iterates.
RaycastStep(origin, n, m, hits_lim, ignore_obj_types) ==
    /\ pc = "idle"
    /\ LET end_point == <<origin[1] + n[1] * m, origin[2] + n[2] * m>>
           ray_bounds == create_ray_bounds(origin, end_point)
           potential_objects == retrieve(tree, bounds, Root, ray_bounds)
       IN \E order \in Orders(potential_objects) :
            last' = [op |-> "raycast", origin |-> origin, n |-> n, max_distance |-> 12 * m,
                     hits_lim |-> hits_lim, ignore |-> ignore_obj_types,
                     order |-> order,
                     hits |-> raycast_loop(order, << >>, origin, n, 12 * m,
                                           hits_lim, ignore_obj_types)]
    /\ UNCHANGED <<bounds, max_objects, max_levels, rect, tree, hist, moves, engineVars>>

\* A QuadTreeEngine whose entities are registered, and so stored in its tree,
\* before rays are cast; the tree splits at once or holds them all in the root.
InitRaycast ==
    /\ bounds = Rect(0, 0, 4, 4)
    /\ max_objects \in {1, NEnt}
    /\ max_levels = 1
    /\ rect \in [Ent -> RayRects]
    /\ tree = [p \in {Root} |-> {}]
    /\ hist = [e \in Ent |-> [st |-> "out", at |-> None]]
    /\ last = [op |-> "init"]
    /\ moves = 0
    /\ cls = "QuadTreeEngine"
    /\ shape_class = [e \in Ent |-> "RectShape"]
    /\ collidable \in {[e \in Ent |-> e # NEnt \/ k] : k \in BOOLEAN}
    /\ IdleEngine

NextRaycast ==
    \/ \E e \in Ent : e = Len(game_objs) + 1 /\ AddGameObject(1, e)
    \/ \E origin \in RayOrigins, n \in RayDirections, m \in RayLengths,
          hits_lim \in HitsLims, ignore_obj_types \in IgnoreSets :
            RaycastStep(origin, n, m, hits_lim, ignore_obj_types)

SpecRaycast == InitRaycast /\ [][NextRaycast]_vars

\* ------------------------------------------------------ physics calls
\* How many integrate calls a body receives, and how large a force buffer and
\* a velocity the callers build up.
MaxSteps == 2
MaxForce == 2
MaxSpeed == 2

\* The forces and impulses applied, and the time steps.
Pushes == {<<2, 0>>, <<0, -2>>}
TimeSteps == {1}

within(v, k) == Abs(v[1]) <= k /\ Abs(v[2]) <= k

\* What a call found in the force buffer and the velocity.
Before(b) == [forces |-> b.forces, velocity |-> b.velocity]

\* body.apply_force(force)
ApplyForce(force) ==
    /\ within(plus(body.forces, force), MaxForce)
    /\ body' = apply_force(body, force)
    /\ last' = [op |-> "apply_force", before |-> Before(body), object_moved |-> FALSE]
    /\ UNCHANGED <<bounds, max_objects, max_levels, rect, tree, hist, moves,
                   cls, shape_class, collidable, shape_position, registryVars, tickVars>>

\* body.apply_impulse(impulse)
ApplyImpulse(impulse) ==
    /\ within(plus(body.velocity, impulse), MaxSpeed)
    /\ body' = apply_impulse(body, impulse)
    /\ last' = [op |-> "apply_impulse", before |-> Before(body), object_moved |-> FALSE]
    /\ UNCHANGED <<bounds, max_objects, max_levels, rect, tree, hist, moves,
                   cls, shape_class, collidable, shape_position, registryVars, tickVars>>

\* body.integrate(dt), once per tick
Integrate(dt) ==
    /\ ticks < MaxSteps
    /\ ticks' = ticks + 1
    /\ body' = integrate(body, dt).body
    /\ last' = [op |-> "integrate", before |-> Before(body),
                object_moved |-> integrate(body, dt).object_moved]
    /\ UNCHANGED <<bounds, max_objects, max_levels, rect, tree, hist, moves,
                   cls, shape_class, collidable, shape_position, registryVars,
                   pc, snapshot, objs_moved, cursor, collisions, log>>

\* A body as its owner constructs it: static or not, at rest or moving, of
\* mass 1 or 2, with or without friction, drag and rotation.
InitPhysics ==
    /\ bounds = Rect(0, 0, 4, 4)
    /\ max_objects = 1
    /\ max_levels = 1
    /\ rect = [e \in Ent |-> Rect(0, 0, 1, 1)]
    /\ tree = [p \in {Root} |-> {}]
    /\ hist = [e \in Ent |-> [st |-> "out", at |-> None]]
    /\ last = [op |-> "init"]
    /\ moves = 0
    /\ cls = "Engine"
    /\ shape_class = [e \in Ent |-> "RectShape"]
    /\ collidable = [e \in Ent |-> TRUE]
    /\ IdleRegistry
    /\ shape_position = <<0, 0>>
    /\ \E velocity \in {<<0, 0>>, <<2, 0>>}, mass \in 1..2, drag \in {Quotient(0, 1), Quotient(1, 1)},
          friction \in 0..1, is_static \in BOOLEAN, enable_rotation \in BOOLEAN :
            body = PhysicsBody(<<0, 0>>, velocity, mass, drag, friction, is_static,
                               enable_rotation, 1, 0)

NextPhysics ==
    \/ \E force \in Pushes : ApplyForce(force)
    \/ \E impulse \in Pushes : ApplyImpulse(impulse)
    \/ \E dt \in TimeSteps : Integrate(dt)

SpecPhysics == InitPhysics /\ [][NextPhysics]_vars

\* --------------------------------------------------------------------- car
\* Car(mass, length, width, pull, friction_coeff, brake_multiplier, location):
\* the arguments the car of this model is constructed with. length, width and
\* brake_multiplier are the defaults; mass, pull and friction_coeff are such
\* that the first two updates stay in whole numbers under the body's drag of
\* 0.05; the location's rotation is the default quarter turn.
CarMass == 1
CarLength == 40
CarWidth == 20
CarPull == 20
CarFriction == 0
CarBrake == 5
CarLocations == {<<x, y>> : x \in {20, 60, 100, 140, 180}, y \in {40, 80, 120, 160}}

\* The Rect the constructor gives the car's RectShape, for the position p.
car_rect(p) == Rect(p[1] - CarWidth \div 2, p[2] - CarLength \div 2, CarWidth, CarLength)

\* math.cos and math.sin of a rotation counted in quarter turns.
cos(q) == CASE q % 4 = 0 -> 1 [] q % 4 = 2 -> -1 [] OTHER -> 0
sin(q) == CASE q % 4 = 1 -> 1 [] q % 4 = 3 -> -1 [] OTHER -> 0

\* Car._apply_car_forces(dt), with neither steering input set.
apply_car_forces(b, gas_pressed, brake_pressed) ==
    LET pushed == IF gas_pressed
                  THEN apply_force(b, <<CarPull * cos(b.rotation), CarPull * sin(b.rotation)>>)
                  ELSE b
    IN [pushed EXCEPT !.rotation = (@ + 4) % 4,
                      !.friction = IF brake_pressed THEN CarFriction * CarBrake
                                   ELSE CarFriction]

\* Car.update(screen, world, dt), with the inputs the signals have set: the
\* forces, collision_shape.position = physics.position - the same Vector2,
\* which integrate then adds to in place - and integrate. The shape's rect is
\* not assigned.
CarUpdate(gas_pressed, brake_pressed, dt) ==
    /\ ticks < MaxSteps
    /\ ticks' = ticks + 1
    /\ LET res == integrate(apply_car_forces(body, gas_pressed, brake_pressed), dt)
       IN /\ body' = res.body
          /\ shape_position' = res.body.position
          /\ last' = [op |-> "Car.update", before |-> body.position,
                      object_moved |-> res.object_moved]
    /\ UNCHANGED <<bounds, max_objects, max_levels, rect, tree, hist, moves,
                   cls, shape_class, collidable, registryVars,
                   pc, snapshot, objs_moved, cursor, collisions, log>>

\* Car.__init__: the physics body at the location, at rest (its angular
\* velocity is 0, so the angular drag is without effect and is given as 0),
\* and a RectShape around it. Every entity is such a car; entity 1 is the one
\* updated.
InitCar ==
    /\ bounds = Rect(0, 0, 200, 200)
    /\ max_objects = 1
    /\ max_levels = 1
    /\ tree = [p \in {Root} |-> {}]
    /\ hist = [e \in Ent |-> [st |-> "out", at |-> None]]
    /\ last = [op |-> "init"]
    /\ moves = 0
    /\ cls = "Engine"
    /\ shape_class = [e \in Ent |-> "RectShape"]
    /\ collidable = [e \in Ent |-> TRUE]
    /\ IdleRegistry
    /\ \E location \in CarLocations :
          /\ body = [PhysicsBody(location, <<0, 0>>, CarMass, Quotient(1, 20), CarFriction,
                                 FALSE, TRUE, 0, 0) EXCEPT !.rotation = 1]
          /\ rect = [e \in Ent |-> car_rect(location)]
          /\ shape_position = location

NextCar == \E gas_pressed \in BOOLEAN, brake_pressed \in BOOLEAN, dt \in TimeSteps :
               CarUpdate(gas_pressed, brake_pressed, dt)

SpecCar == InitCar /\ [][NextCar]_vars

\* ------------------------------------------------- narrow-phase calls
\* The rectangles and circles the narrow phase is called with: apart,
\* touching, overlapping by one or two units, and equal.
NarrowRects ==
    {Rect(x, y, w, h) : x \in 0..3, y \in 0..1, w \in 1..2, h \in 1..2}
NarrowCircles == {Circle(x, 0, r) : x \in {0, 1, 3, 4}, r \in 1..2}

\* A shape: its class and its geometry.
Shape(c, g) == [cls |-> c, g |-> g]
NarrowShapes ==
    {Shape("RectShape", r) : r \in NarrowRects}
        \cup {Shape("CircleShape", c) : c \in NarrowCircles}
        \cup {Shape("CustomShape", Rect(0, 0, 1, 1))}

\* CollisionDetector.detect(a, b) is called.
DetectStep(sa, sb) ==
    /\ last' = [op |-> "detect", a |-> sa, b |-> sb,
                res |-> detect(sa.cls, sb.cls, sa.g, sb.g)]
    /\ UNCHANGED <<bounds, max_objects, max_levels, rect, tree, hist, moves, engineVars>>

\* rect_intersects_rect is called on two RectShapes, in both orders.
RectRectStep(r1, r2) ==
    /\ last' = [op |-> "rect_intersects_rect", a |-> r1, b |-> r2,
                res |-> rect_intersects_rect(r1, r2),
                rev |-> rect_intersects_rect(r2, r1)]
    /\ UNCHANGED <<bounds, max_objects, max_levels, rect, tree, hist, moves, engineVars>>

NextNarrow ==
    \/ \E sa \in NarrowShapes, sb \in NarrowShapes : DetectStep(sa, sb)
    \/ \E r1 \in NarrowRects, r2 \in NarrowRects : RectRectStep(r1, r2)

SpecNarrow == InitRegistry /\ [][NextNarrow]_vars

\* ------------------------------------------------- shapes: rays and circles
\* Vector2.dot, and a number num / den kept exact as a pair with den > 0;
\* Inf is float('inf').
dot(u, v) == u[1] * v[1] + u[2] * v[2]
Fraction(num, den) == IF den < 0 THEN <<-num, -den>> ELSE <<num, den>>
Inf == <<1, 0>>
less(f, g) == f[1] * g[2] < g[1] * f[2]

\* Vector2(-edge.y, edge.x).normalize(), in fifths: the edges of this model
\* have a whole length that divides five times their components.
normalize5(edge) ==
    <<(-edge[2] * 5) \div length(edge[1], edge[2]), (edge[1] * 5) \div length(edge[1], edge[2])>>

RECURSIVE vector_sum(_)
vector_sum(vertices) ==
    IF vertices = <<>> THEN <<0, 0>> ELSE plus(Head(vertices), vector_sum(Tail(vertices)))

Line(start, end) == [start |-> start, end |-> end]

\* LineShape.contains_point(point)
contains_point(l, point) ==
    LET line == minus(l.end, l.start)
        to_point == minus(point, l.start)
    IN /\ line[1] * to_point[2] - line[2] * to_point[1] = 0
       /\ dot(to_point, line) >= 0
       /\ dot(to_point, line) <= dot(line, line)

\* LineShape.intersects_ray(origin, direction, max_distance): u = s.h / a,
\* v = direction.q / a and t = s.q / a are compared through their products
\* with a. The hit's point is a pair of numerators over the distance's
\* denominator, its normal is in fifths.
line_intersects_ray(l, origin, direction, max_distance) ==
    LET line_dir == minus(l.end, l.start)
        h == <<-direction[2], direction[1]>>
        a == dot(line_dir, h)
        s == minus(origin, l.start)
        q == <<-line_dir[2], line_dir[1]>>
        t == Fraction(dot(s, q), a)
    IN IF a = 0 THEN NoHit
       ELSE IF dot(s, h) * a < 0 \/ dot(s, h) * a > a * a THEN NoHit
       ELSE IF dot(direction, q) * a <= 0 THEN NoHit
       ELSE IF less(<<max_distance, 1>>, t) THEN NoHit
       ELSE RaycastHit(plus(scaled(origin, t[2]), scaled(direction, t[1])),
                       normalize5(line_dir), t)

\* The loop over the edges of PolygonShape.intersects_ray, from edge i on:
\* <<min_t, hit_normal>> after the last edge. The polygon's position is the
\* mean of its vertices, so to_center is taken 2 * n times as large.
RECURSIVE polygon_edges_ray(_, _, _, _, _, _, _)
polygon_edges_ray(vertices, origin, direction, max_distance, i, min_t, hit_normal) ==
    IF i > Len(vertices) THEN <<min_t, hit_normal>>
    ELSE LET n == Len(vertices)
             v1 == vertices[i]
             v2 == vertices[(i % n) + 1]
             edge_dir == minus(v2, v1)
             h == <<-direction[2], direction[1]>>
             a == dot(edge_dir, h)
             s == minus(origin, v1)
             q == <<-edge_dir[2], edge_dir[1]>>
             t == Fraction(dot(s, q), a)
             edge_normal == normalize5(edge_dir)
             to_center == minus(scaled(vector_sum(vertices), 2), scaled(plus(v1, v2), n))
         IN IF \/ a = 0
               \/ dot(s, h) * a < 0 \/ dot(s, h) * a > a * a
               \/ ~(dot(direction, q) * a > 0)
               \/ ~(less(t, min_t) /\ ~less(<<max_distance, 1>>, t))
            THEN polygon_edges_ray(vertices, origin, direction, max_distance, i + 1,
                                   min_t, hit_normal)
            ELSE polygon_edges_ray(vertices, origin, direction, max_distance, i + 1, t,
                                   IF dot(edge_normal, to_center) < 0
                                   THEN scaled(edge_normal, -1) ELSE edge_normal)

\* PolygonShape.intersects_ray(origin, direction, max_distance)
polygon_intersects_ray(vertices, origin, direction, max_distance) ==
    LET found == polygon_edges_ray(vertices, origin, direction, max_distance, 1, Inf, <<0, 0>>)
        min_t == found[1]
    IN IF min_t = Inf THEN NoHit
       ELSE RaycastHit(plus(scaled(origin, min_t[2]), scaled(direction, min_t[1])),
                       found[2], min_t)

\* The projection of the polygon onto an edge's normal as the code takes it:
\* it starts from the edge's first vertex v1 and goes over vertices[1:].
projections(vertices, v1, normal) ==
    {dot(v1, normal)} \cup {dot(vertices[k], normal) : k \in 2..Len(vertices)}

\* The first loop of polygon_intersects_circle, from edge i on, with the
\* running minimum in best: NoCollision at the first separating edge, else the
\* minimum after the last edge. Projections and penetrations are in fifths;
\* the contact point is a pair of numerators and their denominator.
RECURSIVE polygon_edges_circle(_, _, _, _)
polygon_edges_circle(vertices, c, i, best) ==
    IF i > Len(vertices) THEN best
    ELSE LET v1 == vertices[i]
             v2 == vertices[(i % Len(vertices)) + 1]
             edge == minus(v2, v1)
             normal == normalize5(edge)
             poly_min == Min(projections(vertices, v1, normal))
             poly_max == Max(projections(vertices, v1, normal))
             circle_center_proj == dot(<<c.x, c.y>>, normal)
             circle_min == circle_center_proj - 5 * c.r
             circle_max == circle_center_proj + 5 * c.r
             penetration == Min({poly_max - circle_min, circle_max - poly_min})
             line_to_circle == minus(<<c.x, c.y>>, v1)
             t == Max({0, Min({dot(edge, edge), dot(line_to_circle, edge)})})
         IN IF poly_max < circle_min \/ circle_max < poly_min THEN NoCollision
            ELSE IF penetration < best.penetration
            THEN polygon_edges_circle(vertices, c, i + 1,
                     Result("CollisionInfo",
                            <<v1[1] * dot(edge, edge) + edge[1] * t,
                              v1[2] * dot(edge, edge) + edge[2] * t, dot(edge, edge)>>,
                            normal, penetration))
            ELSE polygon_edges_circle(vertices, c, i + 1, best)

\* The second loop of polygon_intersects_circle, over the vertices from i on.
\* A vertex nearer than the radius is at a whole distance in this model.
RECURSIVE polygon_vertices_circle(_, _, _, _)
polygon_vertices_circle(vertices, c, i, best) ==
    IF i > Len(vertices) THEN best
    ELSE LET to_vertex == minus(vertices[i], <<c.x, c.y>>)
             distance == length(to_vertex[1], to_vertex[2])
         IN IF dot(to_vertex, to_vertex) < c.r * c.r /\ 5 * (c.r - distance) < best.penetration
            THEN polygon_vertices_circle(vertices, c, i + 1,
                     Result("CollisionInfo", <<vertices[i][1], vertices[i][2], 1>>,
                            IF distance > 0
                            THEN <<(to_vertex[1] * 5) \div distance, (to_vertex[2] * 5) \div distance>>
                            ELSE <<5, 0>>,
                            5 * (c.r - distance)))
            ELSE polygon_vertices_circle(vertices, c, i + 1, best)

\* polygon_intersects_circle(s1, s2)
polygon_intersects_circle(vertices, c) ==
    LET edges == polygon_edges_circle(vertices, c, 1,
                                      Result("CollisionInfo", <<0, 0, 1>>, <<0, 0>>, inf))
    IN IF edges = NoCollision THEN NoCollision
       ELSE polygon_vertices_circle(vertices, c, 1, edges)

\* The segments, rays, polygons and circles the calls are made with: segments
\* in both directions and one slanted, two triangles' worth of listings of the
\* same triangle, one starting at each vertex, and a square.
ShapeLines ==
    {Line(<<2, -1>>, <<2, 1>>), Line(<<2, 1>>, <<2, -1>>),
     Line(<<-1, 2>>, <<1, 2>>), Line(<<1, -4>>, <<4, 0>>)}
ShapeOrigins == {<<0, 0>>, <<4, 0>>}
ShapeDirections == {<<1, 0>>, <<-1, 0>>, <<0, 1>>}
ShapeLengths == {1, 5}
ShapePolygons ==
    {<<<<3, 4>>, <<0, 0>>, <<6, 0>>>>, <<<<0, 0>>, <<6, 0>>, <<3, 4>>>>,
     <<<<6, 0>>, <<3, 4>>, <<0, 0>>>>, <<<<1, -1>>, <<3, -1>>, <<3, 1>>, <<1, 1>>>>}
ShapeCircles ==
    {Circle(3, 1, 1), Circle(3, 2, 1), Circle(3, 3, 1), Circle(3, 4, 1),
     Circle(3, -3, 1), Circle(8, 0, 1), Circle(2, 0, 1)}

\* circle_intersects_circle is called on two CircleShapes.
CircleCircleStep(c1, c2) ==
    /\ last' = [op |-> "circle_intersects_circle", a |-> c1, b |-> c2,
                res |-> circle_intersects_circle(c1, c2)]
    /\ UNCHANGED <<bounds, max_objects, max_levels, rect, tree, hist, moves, engineVars>>

\* LineShape.intersects_ray is called.
LineRayStep(l, origin, direction, max_distance) ==
    /\ last' = [op |-> "LineShape.intersects_ray", a |-> l, origin |-> origin,
                direction |-> direction, max_distance |-> max_distance,
                res |-> line_intersects_ray(l, origin, direction, max_distance)]
    /\ UNCHANGED <<bounds, max_objects, max_levels, rect, tree, hist, moves, engineVars>>

\* PolygonShape.intersects_ray is called.
PolygonRayStep(vertices, origin, direction, max_distance) ==
    /\ last' = [op |-> "PolygonShape.intersects_ray", a |-> vertices, origin |-> origin,
                direction |-> direction, max_distance |-> max_distance,
                res |-> polygon_intersects_ray(vertices, origin, direction, max_distance)]
    /\ UNCHANGED <<bounds, max_objects, max_levels, rect, tree, hist, moves, engineVars>>

\* polygon_intersects_circle is called on a PolygonShape and a CircleShape.
PolygonCircleStep(vertices, c) ==
    /\ last' = [op |-> "polygon_intersects_circle", a |-> vertices, b |-> c,
                res |-> polygon_intersects_circle(vertices, c)]
    /\ UNCHANGED <<bounds, max_objects, max_levels, rect, tree, hist, moves, engineVars>>

NextShapes ==
    \/ \E c1 \in NarrowCircles, c2 \in NarrowCircles : CircleCircleStep(c1, c2)
    \/ \E l \in ShapeLines, o \in ShapeOrigins, d \in ShapeDirections, m \in ShapeLengths :
          LineRayStep(l, o, d, m)
    \/ \E p \in ShapePolygons, o \in ShapeOrigins, d \in ShapeDirections, m \in ShapeLengths :
          PolygonRayStep(p, o, d, m)
    \/ \E p \in ShapePolygons, c \in ShapeCircles : PolygonCircleStep(p, c)

SpecShapes == InitRegistry /\ [][NextShapes]_vars

C3_RoundTrip ==
    (/\ last.op = "retrieve"
     /\ last.q = bounds
     /\ \A e \in Ent : hist[e].st # "out" => inside(bounds, rect[e])) =>
        last.found = {e \in Ent : hist[e].st # "out"}

\* C4: retrieve has no false negatives: every stored entity whose bounding box
\* has not changed since its insert and intersects the query region is
\* returned, for the query regions inside the world.
C4_NoFalseNegative ==
    \A q \in RectPool \cup {bounds} : \A e \in Ent :
        (/\ inside(bounds, q)
         /\ hist[e].st = "clean" /\ in_tree(tree, e)
         /\ colliderect(rect[e], q)) =>
            e \in retrieve(tree, bounds, Root, q)

\* C5: remove on an entity whose bounding box is the one it was inserted with
\* leaves the entity in the objects set of no node.
C5_RemoveComplete ==
    (last.op = "remove" /\ last.was = "clean") => ~in_tree(tree, last.e)

\* C5 witness: a removed entity that had been pushed into a child by a split.
C5_Witness ==
    /\ last.op = "remove" /\ last.was = "clean"
    /\ rect[last.e] # None
    /\ has_children(tree, Root)
    /\ colliderect(bounds, rect[last.e])
    /\ get_index(bounds, rect[last.e]) # -1
    /\ \E e \in Ent \ {last.e} : in_tree(tree, e)

\* C6: on one engine, every add_game_object call returns an id that no earlier
\* call on that engine returned.
C6_FreshIds ==
    \A g \in Engines : \A i, j \in 1..Len(issued[g]) :
        i # j => issued[g][i] # issued[g][j]

\* C6 witness: an engine has handed out three ids and one of its entities has
\* been unregistered in between.
C6_Witness ==
    /\ Len(issued[1]) = 3
    /\ Cardinality(own[1]) < 3
    /\ own[1] # {}

\* C7: the registry is scoped to the instance: each engine's
\* get_game_object_by_id and get_game_objects_by_type answer with exactly the
\* entities registered on that engine and not unregistered on it.
C7_InstanceScoped ==
    \A g \in Engines :
        /\ \A id \in Ids :
              get_game_object_by_id(id) =
                 (IF \E x \in own[g] : x[1] = id
                  THEN (CHOOSE x \in own[g] : x[1] = id)[2]
                  ELSE NoObj)
        /\ \A t \in Types :
              get_game_objects_by_type(t) = {x \in own[g] : getType(x[2]) = t}

\* C1: after remove_game_object(id) on a registered entity, the entity is in
\* neither game_objs nor game_objs_by_type, and no retrieve over any region
\* returns it.
C1_Unregistered ==
    \A e \in removed :
        /\ ~is_registered(e)
        /\ \A x \in game_objs_by_type : x[3] # e
        /\ \A q \in EngineRects \cup {bounds} : e \notin retrieve(tree, bounds, Root, q)

\* C8: within a tick no update call follows an update_object call, no
\* update_object call follows a broad-phase retrieve, and no detect call
\* follows an on_collision callback.
C8_PhaseOrder ==
    \A i, j \in 1..Len(log) :
        i < j =>
            /\ ~(log[i].ev = "update_object" /\ log[j].ev = "update")
            /\ ~(log[i].ev = "retrieve" /\ log[j].ev = "update_object")
            /\ ~(log[i].ev = "on_collision" /\ log[j].ev = "detect")

\* C9: when the tick has ended, for every moved entity a that the broad phase
\* found stored, and every other collidable candidate b the query over a's box
\* returned for which the handler of their two shape classes reports a
\* contact, a.on_collision(b, info) and b.on_collision(a, info) have both been
\* called with the same info.
C9_BothNotified ==
    pc \in {"done", "raised"} =>
        \A i \in 1..Len(log) :
            log[i].ev = "retrieve" =>
                \A b \in log[i].cands \ {log[i].a} :
                    ( /\ log[i].a \in log[i].cands
                      /\ collidable[b]
                      /\ <<shape_class[log[i].a], shape_class[b]>> \in DOMAIN registry
                      /\ detect(shape_class[log[i].a], shape_class[b],
                                rect[log[i].a], rect[b]).kind = "CollisionInfo" )
                    => \E j, k \in 1..Len(log) :
                          /\ log[j].ev = "on_collision"
                          /\ log[j].a = log[i].a /\ log[j].b = b
                          /\ log[k].ev = "on_collision"
                          /\ log[k].a = b /\ log[k].b = log[i].a
                          /\ log[j].info = log[k].info

\* C10: a tick in which a narrow-phase lookup found no handler is not aborted:
\* when it ends, every other candidate of every query has been tested and
\* every collected collision has been dispatched to both entities.
C10_SkipPair ==
    (\E i \in 1..Len(log) :
        log[i].ev = "detect" /\ log[i].info.kind = "NotImplementedError")
    => /\ pc # "raised"
       /\ pc = "done" =>
            /\ \A i \in 1..Len(log) :
                  log[i].ev = "retrieve" =>
                     \A b \in log[i].cands \ {log[i].a} :
                        collidable[b] =>
                           \E j \in 1..Len(log) :
                              /\ j > i
                              /\ log[j].ev = "detect"
                              /\ log[j].a = log[i].a /\ log[j].b = b
            /\ \A n \in 1..Len(collisions) :
                  \E j, k \in 1..Len(log) :
                     /\ log[j] = Entry("on_collision", collisions[n].a, collisions[n].b,
                                       collisions[n].info, {})
                     /\ log[k] = Entry("on_collision", collisions[n].b, collisions[n].a,
                                       collisions[n].info, {})

\* The handler default_detectors lists for two shapes of the one class c.
same_kind_handler(c) ==
    default_detectors[CHOOSE i \in 1..Len(default_detectors) :
        default_detectors[i][1] = c /\ default_detectors[i][2] = c][3]

\* default_detectors lists the two classes, in one order or the other.
listed(ta, tb) ==
    \E i \in 1..Len(default_detectors) :
        \/ default_detectors[i][1] = ta /\ default_detectors[i][2] = tb
        \/ default_detectors[i][1] = tb /\ default_detectors[i][2] = ta

\* C11: detect(a, b) for two classes no handler is listed for raises
\* NotImplementedError; it does not return None.
C11_MissingHandlerRaises ==
    (last.op = "detect" /\ ~listed(last.a.cls, last.b.cls))
    => (last.res.kind = "NotImplementedError" /\ last.res.kind # "None")

\* C11 witness: detect has been called with a shape of a class that has no
\* handler and a rectangle.
C11_Witness ==
    /\ last.op = "detect"
    /\ last.a.cls = "CustomShape"
    /\ last.b.cls = "RectShape"
    /\ last.res.kind = "NotImplementedError"

\* C12: for two rectangles or two circles, detect(a, b) returns what the
\* handler listed for the kind returns for (a, b) in that order.
C12_SameKindOrder ==
    (last.op = "detect" /\ last.a.cls = last.b.cls
        /\ last.a.cls \in {"RectShape", "CircleShape"})
    => last.res = call(same_kind_handler(last.a.cls), last.a.g, last.b.g)

\* C19: rect_intersects_rect(A, B) returns None exactly when the boxes are
\* separated on the x axis or on the y axis; otherwise its penetration is the
\* least of the four directional overlaps.
C19_RectOverlap ==
    last.op = "rect_intersects_rect" =>
        LET A == last.a
            B == last.b
            separated == \/ right(A) < left(B)
                         \/ right(B) < left(A)
                         \/ bottom(A) < top(B)
                         \/ bottom(B) < top(A)
            overlaps == {right(A) - left(B), right(B) - left(A),
                         bottom(A) - top(B), bottom(B) - top(A)}
        IN /\ (last.res.kind = "None") <=> separated
           /\ ~separated =>
                 /\ last.res.kind = "CollisionInfo"
                 /\ last.res.penetration \in overlaps
                 /\ \A o \in overlaps : last.res.penetration <= o

\* C19 witness: rect_intersects_rect has been called on two boxes that only
\* touch along an edge and has returned a contact of penetration 0.
C19_Witness ==
    /\ last.op = "rect_intersects_rect"
    /\ right(last.a) = left(last.b)
    /\ last.res.kind = "CollisionInfo"
    /\ last.res.penetration = 0

\* C20: for overlapping boxes the normal of rect_intersects_rect(B, A) is the
\* negation of the normal of rect_intersects_rect(A, B).
C20_MirroredNormal ==
    (last.op = "rect_intersects_rect" /\ last.res.kind = "CollisionInfo")
    => /\ last.rev.kind = "CollisionInfo"
       /\ last.rev.normal = <<-last.res.normal[1], -last.res.normal[2]>>

\* C13: the narrow phase is run only on a candidate that is not the moved
\* entity and is collidable, and an entity that is not collidable receives
\* on_collision only as the moved entity of a tested pair, never as a
\* candidate.
C13_CollidableOnly ==
    /\ \A i \in 1..Len(log) :
          log[i].ev = "detect" => (log[i].a # log[i].b /\ collidable[log[i].b])
    /\ \A n \in 1..Len(collisions) :
          collisions[n].a # collisions[n].b /\ collidable[collisions[n].b]
    /\ \A i \in 1..Len(log) :
          (log[i].ev = "on_collision" /\ ~collidable[log[i].a])
          => \E j \in 1..Len(log) :
                log[j].ev = "detect" /\ log[j].a = log[i].a /\ log[j].b = log[i].b

\* How many update calls of the current tick were made on entity e.
updates_of(e) == Cardinality({i \in 1..Len(log) : log[i].ev = "update" /\ log[i].a = e})

\* C16: whatever the update calls registered or unregistered, once the update
\* loop has ended every entity that was registered when it started has had
\* exactly one update call, and no other entity has had one.
C16_UpdatedOnce ==
    pc \in {"spatial", "collide", "dispatch", "done", "raised"} =>
        /\ \A i \in 1..Len(snapshot) : updates_of(snapshot[i]) = 1
        /\ \A e \in Ent :
              updates_of(e) > 0 => \E i \in 1..Len(snapshot) : snapshot[i] = e

\* C16 witness: the update loop has ended in a tick during which an entity
\* that was registered at its start was unregistered and another object was
\* registered.
C16_Witness ==
    /\ pc \in {"spatial", "collide", "dispatch", "done"}
    /\ \E i \in 1..Len(snapshot) : ~is_registered(snapshot[i])
    /\ \E e \in Ent : is_registered(e) /\ \A i \in 1..Len(snapshot) : snapshot[i] # e

\* The candidates of the last raycast, in iteration order, that are not of an
\* ignored type, are collidable, have a shape and are hit by the ray.
RECURSIVE qualifying(_)
qualifying(order) ==
    IF order = << >> THEN << >>
    ELSE LET obj == Head(order)
         IN IF /\ getType(obj) \notin last.ignore
               /\ collidable[obj]
               /\ has_shape(obj)
               /\ intersects_ray(rect[obj], last.origin, last.n, last.max_distance).kind
                     = "RaycastHit"
            THEN <<obj>> \o qualifying(Tail(order))
            ELSE qualifying(Tail(order))

\* C14: with hits_lim = -1 raycast returns one hit for every qualifying
\* candidate.
C14_NoLimit ==
    (last.op = "raycast" /\ last.hits_lim = -1)
    => [i \in 1..Len(last.hits) |-> last.hits[i].obj] = qualifying(last.order)

\* C15: with hits_lim >= 0 raycast returns at most hits_lim hits, they are the
\* first qualifying candidates in iteration order, each with the hit its shape
\* reports.
C15_Limit ==
    (last.op = "raycast" /\ last.hits_lim >= 0)
    => /\ Len(last.hits) <= last.hits_lim
       /\ Len(last.hits) = Min({last.hits_lim, Len(qualifying(last.order))})
       /\ \A i \in 1..Len(last.hits) :
             /\ last.hits[i].obj = qualifying(last.order)[i]
             /\ getType(last.hits[i].obj) \notin last.ignore
             /\ collidable[last.hits[i].obj]
             /\ has_shape(last.hits[i].obj)
             /\ last.hits[i].hit = intersects_ray(rect[last.hits[i].obj], last.origin,
                                                  last.n, last.max_distance)

\* C15 witness: a ray with hits_lim = 1 had two qualifying candidates and, in
\* another position of the order, a candidate that does not qualify; one hit
\* was returned.
C15_Witness ==
    /\ last.op = "raycast"
    /\ last.hits_lim = 1
    /\ Len(qualifying(last.order)) = 2
    /\ Len(last.order) = 3
    /\ Len(last.hits) = 1

\* C17: no call changes the position, the velocity or the force buffer of a
\* static body, and an integrate call on it reports 'not moved'.
C17_StaticUnchanged ==
    [][body.is_static =>
          /\ body'.position = body.position
          /\ body'.velocity = body.velocity
          /\ body'.forces = body.forces
          /\ last'.op = "integrate" => ~last'.object_moved]_vars

\* C17 witness: a static body that was constructed with a velocity has been
\* integrated and has then had a force applied.
C17_Witness ==
    /\ body.is_static
    /\ body.velocity # <<0, 0>>
    /\ ticks > 0
    /\ last.op = "apply_force"

\* C18: after an integrate call the force buffer is zero.
C18_ForcesCleared ==
    last.op = "integrate" => body.forces = <<0, 0>>

\* C18 witness: a body that had a force in its buffer has been integrated and
\* its velocity has changed.
C18_Witness ==
    /\ last.op = "integrate"
    /\ last.before.forces # <<0, 0>>
    /\ body.velocity # last.before.velocity

\* C21: for circle_intersects_circle(s1, s2) on touching or overlapping circles
\* with distinct centres, the normal has the direction of
\* s1.position - s2.position, from the second shape toward the first.
C21_NormalTowardFirst ==
    (/\ last.op = "circle_intersects_circle"
     /\ last.res.kind = "CollisionInfo"
     /\ <<last.a.x, last.a.y>> # <<last.b.x, last.b.y>>)
    => LET d == <<last.a.x - last.b.x, last.a.y - last.b.y>>
       IN /\ dot(last.res.normal, d) > 0
          /\ last.res.normal[1] * d[2] - last.res.normal[2] * d[1] = 0

\* The ray parameters 1..max_distance at which the ray is on the segment l.
crossings(l, origin, direction, max_distance) ==
    {t \in 1..max_distance : contains_point(l, plus(origin, scaled(direction, t)))}
parallel(l, direction) ==
    (l.end[1] - l.start[1]) * direction[2] - (l.end[2] - l.start[2]) * direction[1] = 0
edges_of(vertices) ==
    {Line(vertices[i], vertices[(i % Len(vertices)) + 1]) : i \in 1..Len(vertices)}
edge_crossings(vertices, origin, direction, max_distance) ==
    UNION {crossings(l, origin, direction, max_distance) :
               l \in {e \in edges_of(vertices) : ~parallel(e, direction)}}

\* C22: when the ray crosses a segment not parallel to it at a parameter t with
\* 0 < t <= max_distance, LineShape.intersects_ray returns a hit at distance t;
\* when it crosses edges of a polygon, PolygonShape.intersects_ray returns a
\* hit at the smallest such t.
C22_SegmentHit ==
    /\ (/\ last.op = "LineShape.intersects_ray"
        /\ ~parallel(last.a, last.direction))
       => \A t \in crossings(last.a, last.origin, last.direction, last.max_distance) :
              last.res.kind = "RaycastHit" /\ last.res.distance = <<t, 1>>
    /\ (/\ last.op = "PolygonShape.intersects_ray"
        /\ edge_crossings(last.a, last.origin, last.direction, last.max_distance) # {})
       => /\ last.res.kind = "RaycastHit"
          /\ last.res.distance[1] = last.res.distance[2]
                 * Min(edge_crossings(last.a, last.origin, last.direction, last.max_distance))

\* Edge i's normal is a separating axis: along it the projections of all the
\* polygon's vertices and the circle's interval do not overlap.
separating_axis(vertices, c, i) ==
    LET normal == normalize5(minus(vertices[(i % Len(vertices)) + 1], vertices[i]))
        all == {dot(vertices[k], normal) : k \in 1..Len(vertices)}
        center == dot(<<c.x, c.y>>, normal)
    IN Max(all) < center - 5 * c.r \/ center + 5 * c.r < Min(all)
\* The point is inside the convex polygon: on the same side of every edge.
side(vertices, c, i) ==
    LET edge == minus(vertices[(i % Len(vertices)) + 1], vertices[i])
        to_point == minus(<<c.x, c.y>>, vertices[i])
    IN edge[1] * to_point[2] - edge[2] * to_point[1]
center_inside(vertices, c) ==
    \/ \A i \in 1..Len(vertices) : side(vertices, c, i) >= 0
    \/ \A i \in 1..Len(vertices) : side(vertices, c, i) =< 0

\* C23: polygon_intersects_circle returns none only if some edge normal is a
\* separating axis, and returns a CollisionInfo whenever the circle's centre
\* lies inside the convex polygon, whichever vertex is listed first.
C23_SeparatingAxis ==
    last.op = "polygon_intersects_circle"
    => /\ last.res = NoCollision
          => \E i \in 1..Len(last.a) : separating_axis(last.a, last.b, i)
       /\ center_inside(last.a, last.b) => last.res.kind = "CollisionInfo"

\* The children a node has, and the objects that can be in a node's local set
\* when the insert of entity e into tree t reaches line 79 on it: the root has
\* its objects and e; a node below has its objects, if it is a node of t, and
\* what its parent hands down to it (the inserted entity, or the objects the
\* loop at the parent re-inserts).
children(t, p) == {i \in 0..3 : Append(p, i) \in DOMAIN t}
RECURSIVE held(_, _, _)
held(t, e, p) ==
    IF p = << >> THEN t[p] \cup {e}
    ELSE LET parent == SubSeq(p, 1, Len(p) - 1)
         IN (IF p \in DOMAIN t THEN t[p] ELSE {}) \cup
            {o \in held(t, e, parent) :
                /\ rect[o] # None
                /\ get_index(node_bounds(bounds, parent), rect[o]) = p[Len(p)]
                /\ colliderect(node_bounds(bounds, p), rect[o])}

\* C24: a node has zero or exactly four children and no node is at a level
\* above max_levels; a node gets children only in an insert (update_object's
\* included) that left its local count above max_objects while its level is
\* below max_levels; and no insert, remove or update_object removes a node.
C24_Shape ==
    \A p \in DOMAIN tree : children(tree, p) \in {{}, 0..3} /\ Len(p) <= max_levels
C24_Step ==
    /\ \A p \in DOMAIN tree : p \in DOMAIN tree'
    /\ \A p \in DOMAIN tree' :
          (has_children(tree', p) /\ ~(p \in DOMAIN tree /\ has_children(tree, p)))
          => /\ last'.op \in {"insert", "update_object"}
             /\ Len(p) < max_levels
             /\ Cardinality(held(tree, last'.e, p)) > max_objects
C24_Structure == [](C24_Shape) /\ [][C24_Step]_vars
\* a node below the root has split, at the depth limit, and a remove followed
C24_Witness ==
    /\ \E i \in 0..3 : has_children(tree, <<i>>)
    /\ max_levels = MaxDepth
    /\ last.op = "remove" /\ last.was # "out"

\* The entities held in a node's subtree.
subtree(t, p) ==
    UNION {t[q] : q \in {n \in DOMAIN t : Len(n) >= Len(p) /\ SubSeq(n, 1, Len(p)) = p}}

\* C25: after inserts of entities whose shapes do not change, every entity in
\* the local set of a node that has children has get_index -1 there, and an
\* inserted entity whose box lies inside one quadrant of such a node is held in
\* that quadrant's subtree and not in the node's local set.
C25_Stored ==
    \A p \in DOMAIN tree :
        has_children(tree, p)
        => /\ \A e \in tree[p] : get_index(node_bounds(bounds, p), rect[e]) = -1
           /\ \A e \in Ent, i \in 0..3 :
                 (/\ hist[e].st # "out"
                  /\ inside(child_bounds(node_bounds(bounds, p), i), rect[e]))
                 => (e \in subtree(tree, Append(p, i)) /\ e \notin tree[p])

\* C26: an entity registered through add_game_object whose bounding box
\* intersects the world is stored in the spatial index from registration on:
\* before any tick has started, so that no entity has reported 'moved',
\* get_objects_in_rect over its bounding box returns it.
C26_IndexedOnRegistration ==
    (pc = "idle" /\ ticks = 0)
    => \A e \in Ent :
          (is_registered(e) /\ has_shape(e) /\ colliderect(bounds, rect[e]))
          => e \in retrieve(tree, bounds, Root, rect[e])

\* C27: within one tick each unordered pair of entities is collected at most
\* once, and A.on_collision(B) is invoked at most once for every A and B, also
\* when both reported 'moved'.
C27_PairOnce ==
    /\ \A i, j \in 1..Len(collisions) :
          i # j => {collisions[i].a, collisions[i].b} # {collisions[j].a, collisions[j].b}
    /\ \A i, j \in 1..Len(log) :
          (/\ i # j
           /\ log[i].ev = "on_collision" /\ log[j].ev = "on_collision"
           /\ log[i].a = log[j].a)
          => log[i].b # log[j].b

\* C28: for every id k in game_objs the stored entity's getId() is k, each
\* registered entity appears under exactly one id, and game_objs_by_type
\* holds, under each type, exactly the entries of game_objs of that type;
\* after any adds and removes, adding the same object twice included.
C28_RegistryConsistent ==
    /\ \A i \in 1..Len(game_objs) : obj_id[game_objs[i].obj] = game_objs[i].id
    /\ \A i, j \in 1..Len(game_objs) : game_objs[i].obj = game_objs[j].obj => i = j
    /\ game_objs_by_type =
          {<<getType(game_objs[i].obj), game_objs[i].id, game_objs[i].obj>> :
               i \in 1..Len(game_objs)}

\* The entity was registered when the running tick started and has been
\* unregistered since, from a callback of that tick made to another entity.
removed_in_tick(e) ==
    /\ pc # "idle"
    /\ e \in removed
    /\ \E i \in 1..Len(snapshot) : snapshot[i] = e

\* C29: an entity unregistered during a tick receives no update and no
\* on_collision later in that tick, and no node of the spatial index holds it
\* when the loops of the tick have run.
C29_End == pc = "done" => \A e \in Ent : removed_in_tick(e) => ~in_tree(tree, e)
C29_Step ==
    \A e \in Ent :
        (removed_in_tick(e) /\ e \in removed')
        => \A i \in (Len(log) + 1)..Len(log') :
              ~(log'[i].ev \in {"update", "on_collision"} /\ log'[i].a = e)
C29_NoCallAfterRemove == [](C29_End) /\ [][C29_Step]_vars

\* C30: after every Car.update in which the physics position changed, the
\* bounding box the car's collision shape returns is the car's rectangle at
\* the new physics position.
C30_BoxFollowsBody ==
    (last.op = "Car.update" /\ body.position # last.before)
    => rect[1] = car_rect(body.position)

====
